---- MODULE Spec2Model ----
(***************************************************************************)
(* Model of the web-extension patterns (baseui.py, jinja.py, react.py) and *)
(* of the AWS::ApiGateway::Deployment resource provider.                   *)
(*                                                                         *)
(* Strings are sequences of atomic pieces: "/" is a piece of its own, so   *)
(* f-strings, rstrip("/"), lstrip("/") and os.path.join act on them the    *)
(* way the code acts on characters.                                        *)
(***************************************************************************)
EXTENDS Integers, Sequences, FiniteSets, TLC

VARIABLES
    \* ---- resource provider (aws_apigateway_deployment.py) ----
    deployments,      \* remote side: set of [restApiId, id] that exist
    request_state,    \* the desired_state as supplied to the last operation
    desired_state,    \* request.desired_state after the last operation (same object as `model`)
    api_calls,        \* remote calls made by the last operation, in order
    result,           \* what the last operation returned or raised
    op,               \* name of the last provider operation
    \* ---- web extensions (baseui.py, jinja.py, react.py) ----
    self,                  \* the extension instance: its class and attributes
    preprocess_request,    \* localstack.aws.handlers.preprocess_request: handlers in order
    router,                \* the gateway router: the rules added so far, in order
    ALLOWED_CORS_ORIGINS,  \* localstack.aws.handlers.cors.ALLOWED_CORS_ORIGINS
    n_updates,             \* number of update_gateway_routes calls so far
    wop,                   \* name of the last extension operation
    request,               \* the arguments of the last extension operation
    reply,                 \* what the last extension operation returned or raised
    load_failed            \* history: on_extension_load has caught a failed import

pvars == <<deployments, request_state, desired_state, api_calls, result, op>>

wvars == <<self, preprocess_request, router, ALLOWED_CORS_ORIGINS, n_updates, wop,
           request, reply, load_failed>>

vars == <<deployments, request_state, desired_state, api_calls, result, op,
          self, preprocess_request, router, ALLOWED_CORS_ORIGINS, n_updates, wop,
          request, reply, load_failed>>

----------------------------------------------------------------------------
(* Values *)

\* a key that is missing from a dict
Absent == "<absent>"
\* Python's None
None == "<None>"
\* the empty string
EmptyStr == ""

\* Python truthiness of a dict.get(...) result / attribute
Truthy(v) == v \notin {Absent, None, EmptyStr}

----------------------------------------------------------------------------
(* Resource provider *)

\* how many deployment ids the remote side can hand out
MaxDeployments == 2

RestApiIds == {"abc", "xyz"}
DeploymentIds == {"d" \o ToString(i) : i \in 1..MaxDeployments}

ModelKeys == {"RestApiId", "DeploymentId", "StageName", "StageDescription", "Description"}

\* the property bags the orchestration layer can hand to the provider
Models ==
    { [k \in ModelKeys |->
          CASE k = "RestApiId" -> r
            [] k = "DeploymentId" -> d
            [] k = "StageName" -> s
            [] k = "StageDescription" -> sd
            [] k = "Description" -> ds] :
      r \in RestApiIds,
      d \in DeploymentIds \cup {Absent},
      s \in {Absent, EmptyStr, "prod"},
      sd \in {Absent, "stage-desc"},
      ds \in {Absent, "desc"} }

\* outcomes of a remote call that the SDK client can produce
RemoteFaults == {"none", "NotFoundException", "TooManyRequestsException"}

NoResult == [kind |-> "none"]

SUCCESS == "SUCCESS"

ProgressEvent(status, resource_model) ==
    [kind |-> "return", status |-> status, resource_model |-> resource_model]

Raise(error) == [kind |-> "raise", error |-> error]

\* params built by create: restApiId always, the optional ones only when truthy
CreateParams(model) ==
    [k \in {"restApiId", "stageName", "stageDescription", "description"} |->
        CASE k = "restApiId" -> model["RestApiId"]
          [] k = "stageName" ->
                IF Truthy(model["StageName"]) THEN model["StageName"] ELSE Absent
          [] k = "stageDescription" ->
                IF Truthy(model["StageDescription"]) THEN model["StageDescription"] ELSE Absent
          [] k = "description" ->
                IF Truthy(model["Description"]) THEN model["Description"] ELSE Absent]

FreeIds == {i \in DeploymentIds : \A dep \in deployments : dep.id # i}

\* variant: the returned identifier is not written into the model
CreateWriteBack_skipped(model, response) == model

\* model["DeploymentId"] = response["id"]
CreateWriteBack(model, response) == [model EXCEPT !["DeploymentId"] = response["id"]]

\* ApiGatewayDeploymentProvider.create
create(model, fault) ==
    LET params == CreateParams(model)
    IN  /\ request_state' = model
        /\ op' = "create"
        /\ IF fault # "none"
           THEN /\ api_calls' = <<[api |-> "create_deployment", params |-> params,
                                   error |-> fault, response |-> None]>>
                /\ desired_state' = model
                /\ result' = Raise(fault)
                /\ UNCHANGED deployments
           ELSE \E newId \in FreeIds :
                LET response == [id |-> newId]
                IN  /\ api_calls' = <<[api |-> "create_deployment", params |-> params,
                                       error |-> "none", response |-> response]>>
                    /\ deployments' = deployments \cup
                                        {[restApiId |-> params["restApiId"], id |-> newId]}
                    /\ desired_state' = CreateWriteBack(model, response)
                    /\ result' = ProgressEvent(SUCCESS, desired_state')

Create ==
    \E model \in Models, fault \in RemoteFaults :
        /\ fault = "none" => FreeIds # {}
        /\ create(model, fault)
        /\ UNCHANGED wvars

\* variant: read answers with the model it was given instead of raising
read_returns(model) ==
    /\ request_state' = model
    /\ op' = "read"
    /\ api_calls' = <<>>
    /\ desired_state' = model
    /\ result' = ProgressEvent(SUCCESS, model)
    /\ UNCHANGED deployments

\* ApiGatewayDeploymentProvider.read
read(model) ==
    /\ request_state' = model
    /\ op' = "read"
    /\ api_calls' = <<>>
    /\ desired_state' = model
    /\ result' = Raise("NotImplementedError")
    /\ UNCHANGED deployments

Read == \E model \in Models : read(model) /\ UNCHANGED wvars

\* ApiGatewayDeploymentProvider.update
update(model) ==
    /\ request_state' = model
    /\ op' = "update"
    /\ api_calls' = <<>>
    /\ desired_state' = model
    /\ result' = Raise("NotImplementedError")
    /\ UNCHANGED deployments

Update == \E model \in Models : update(model) /\ UNCHANGED wvars

\* the error the remote delete_deployment call ends with ("none": it succeeded)
DeleteRemoteError(model, fault) ==
    IF fault = "TooManyRequestsException" THEN fault
    ELSE IF fault = "NotFoundException"
            \/ [restApiId |-> model["RestApiId"], id |-> model["DeploymentId"]]
                  \notin deployments
         THEN "NotFoundException"
         ELSE "none"

\* variant: no except clause, every remote error propagates
DeleteSwallows_nothing(error) == FALSE

\* variant: a bare except, every remote error is swallowed
DeleteSwallows_everything(error) == TRUE

\* the except clause of delete: which remote errors are swallowed
DeleteSwallows(error) == error = "NotFoundException"

\* ApiGatewayDeploymentProvider.delete
delete(model, fault) ==
    /\ request_state' = model
    /\ op' = "delete"
    /\ desired_state' = model
    /\ IF model["DeploymentId"] = Absent
       THEN \* model["DeploymentId"] raises before the remote call is made
            /\ api_calls' = <<>>
            /\ result' = Raise("KeyError")
            /\ UNCHANGED deployments
       ELSE LET error == DeleteRemoteError(model, fault)
                call == [api |-> "delete_deployment",
                         params |-> [restApiId |-> model["RestApiId"],
                                     deploymentId |-> model["DeploymentId"]],
                         error |-> error, response |-> None]
            IN  /\ api_calls' = <<call>>
                /\ deployments' =
                      IF error = "none"
                      THEN deployments \ {[restApiId |-> model["RestApiId"],
                                           id |-> model["DeploymentId"]]}
                      ELSE deployments
                /\ result' = IF error = "none" \/ DeleteSwallows(error)
                             THEN ProgressEvent(SUCCESS, model)
                             ELSE Raise(error)

Delete ==
    \E model \in Models, fault \in RemoteFaults : delete(model, fault) /\ UNCHANGED wvars

----------------------------------------------------------------------------
(* Strings as sequences of pieces *)

\* the sentinel `_default = object()`: "argument not passed"
_default == <<"<default>">>
\* None where a string is expected
NoneS == <<"<None>">>

\* truthiness of an optional string: None and "" are falsy
TruthyS(s) == s \notin {NoneS, <<>>}

RECURSIVE rstrip(_, _)
\* str.rstrip(ch)
rstrip(s, ch) ==
    IF s # <<>> /\ s[Len(s)] = ch THEN rstrip(SubSeq(s, 1, Len(s) - 1), ch) ELSE s

RECURSIVE lstrip(_, _)
\* str.lstrip(ch)
lstrip(s, ch) ==
    IF s # <<>> /\ s[1] = ch THEN lstrip(Tail(s), ch) ELSE s

\* s.startswith(prefix)
startswith(s, prefix) ==
    Len(s) >= Len(prefix) /\ SubSeq(s, 1, Len(prefix)) = prefix

----------------------------------------------------------------------------
(* localstack.config *)

\* config.LOCALSTACK_HOST
LOCALSTACK_HOST == <<"localhost.localstack.cloud", ":", "4566">>

Protocols == {"http", "https"}

\* config.external_service_url(subdomains=..., protocol=...)
external_service_url(subdomains, protocol) ==
    <<protocol, "://">>
        \o (IF TruthyS(subdomains) THEN subdomains \o <<".">> ELSE <<>>)
        \o LOCALSTACK_HOST

----------------------------------------------------------------------------
(* WebAppBaseExtension and its subclasses: construction *)

Classes == {"WebAppBaseExtension", "JinjaExtension", "ReactExtension"}

\* Extension.name of the extension class
ExtensionName == <<"my-extension">>

\* the constructor arguments tried
MountArgs == {NoneS, <<"m">>}
SubmountArgs == {_default, NoneS, <<"/", "ui">>, <<"/", "ui", "/">>}
SubdomainArgs == {_default, NoneS, <<>>, <<"sd">>}
StaticPackagePathArgs == {_default, NoneS}
TemplatePackagePathArgs == {_default, NoneS}

\* a cached_property that has not been computed yet
Unset == <<"<unset>">>

\* a rule: a path pattern and the endpoint it dispatches to
Rule(path, endpoint) == [kind |-> "RuleAdapter", path |-> path, endpoint |-> endpoint]

\* the extension object itself as an element of a route list (`routes = [self]`)
SelfElement == [kind |-> "self", path |-> <<>>, endpoint |-> "self"]

\* the @route methods a concrete extension class declares: none, a /hello
\* route, or (for the SPA adapter) also the mount root served by _serve_static_file
DeclaredRoutes(cls) ==
    {<<>>, <<Rule(<<"/", "hello">>, "hello")>>}
    \cup (IF cls = "ReactExtension"
          THEN {<<Rule(<<"/">>, "_serve_static_file")>>}
          ELSE {})

\* what a concrete extension's collect_routes override appends (<<>>: the base `pass`)
CollectedRoutes == {<<>>, <<Rule(<<"/", "say-hello">>, "say_hello")>>}

\* variant: `submount or default`, a None argument falls back to the derived default
WebAppBaseExtension__init___none_as_default(name, mount, submount, subdomain) ==
    LET m == IF TruthyS(mount) THEN mount ELSE name
    IN  [submount  |-> IF submount \in {_default, NoneS}
                       THEN <<"/", "_extension", "/">> \o m
                       ELSE submount,
         subdomain |-> IF subdomain \in {_default, NoneS} THEN m ELSE subdomain]

\* WebAppBaseExtension.__init__
WebAppBaseExtension__init__(name, mount, submount, subdomain) ==
    LET m == IF TruthyS(mount) THEN mount ELSE name
    IN  [submount  |-> IF submount = _default THEN <<"/", "_extension", "/">> \o m
                       ELSE submount,
         subdomain |-> IF subdomain = _default THEN m ELSE subdomain]

\* JinjaExtension.__init__ (the attributes it adds)
JinjaExtension__init__(template_package_path, static_package_path, static_url_path) ==
    [template_package_path |-> IF template_package_path = _default THEN <<"templates">>
                               ELSE template_package_path,
     static_package_path |-> IF static_package_path = _default THEN <<"static">>
                             ELSE static_package_path,
     static_url_path |-> IF TruthyS(static_url_path) THEN static_url_path
                         ELSE <<"/", "static">>,
     static_resource_module |-> NoneS]

\* the instance after construction
\* (`args` keeps the constructor arguments, `envs_created` counts the calls of
\* _create_template_env: history, not attributes)
NewExtension(cls, mount, submount, subdomain, template_package_path, static_package_path, declared, collected) ==
    LET base == WebAppBaseExtension__init__(ExtensionName, mount, submount, subdomain)
        jinja == JinjaExtension__init__(template_package_path, static_package_path, NoneS)
    IN  [cls |-> cls,
         name |-> ExtensionName,
         args |-> [mount |-> mount, submount |-> submount, subdomain |-> subdomain],
         template_package_path |->
             IF cls = "JinjaExtension" THEN jinja.template_package_path ELSE NoneS,
         template_env |-> Unset,
         envs_created |-> 0,
         submount |-> base.submount,
         subdomain |-> base.subdomain,
         static_package_path |->
             IF cls = "JinjaExtension" THEN jinja.static_package_path ELSE NoneS,
         static_url_path |->
             IF cls = "JinjaExtension" THEN jinja.static_url_path ELSE NoneS,
         static_resource_module |-> NoneS,
         declared |-> declared,
         collected |-> collected]

----------------------------------------------------------------------------
(* Outcomes of a call *)

Return(value) == [kind |-> "return", value |-> value]

ValueError(message) == [kind |-> "raise", error |-> "ValueError", message |-> message]

NoResponse == [kind |-> "none"]

----------------------------------------------------------------------------
(* URL accessors *)

\* variant: the subdomain is not checked before the URL is built
get_subdomain_url_unchecked(ext, protocol) ==
    Return(external_service_url(ext.subdomain, protocol))

\* WebAppBaseExtension.get_subdomain_url
get_subdomain_url(ext, protocol) ==
    IF ~TruthyS(ext.subdomain)
    THEN ValueError(<<"Subdomain for extension ">> \o ext.name \o <<" is not set">>)
    ELSE Return(external_service_url(ext.subdomain, protocol))

\* WebAppBaseExtension.get_submount_url
get_submount_url(ext, protocol) ==
    IF ~TruthyS(ext.submount)
    THEN ValueError(<<"Submount for extension ">> \o ext.name \o <<" is not set">>)
    ELSE Return(external_service_url(NoneS, protocol) \o ext.submount)

GetSubdomainUrl ==
    \E protocol \in Protocols :
        /\ wop' = "get_subdomain_url"
        /\ request' = [protocol |-> protocol]
        /\ reply' = get_subdomain_url(self, protocol)
        /\ UNCHANGED <<self, preprocess_request, router, ALLOWED_CORS_ORIGINS, n_updates,
                       load_failed>>
        /\ UNCHANGED pvars

GetSubmountUrl ==
    \E protocol \in Protocols :
        /\ wop' = "get_submount_url"
        /\ request' = [protocol |-> protocol]
        /\ reply' = get_submount_url(self, protocol)
        /\ UNCHANGED <<self, preprocess_request, router, ALLOWED_CORS_ORIGINS, n_updates,
                       load_failed>>
        /\ UNCHANGED pvars

----------------------------------------------------------------------------
(* Mounting the routes *)

\* how many times update_gateway_routes is called on the instance
MaxUpdates == 2

\* WebAppBaseExtension._add_superclass_routes and its overrides
\* (JinjaExtension._add_superclass_routes, ReactExtension._add_superclass_routes)
_add_superclass_routes(ext, routes) ==
    CASE ext.cls = "JinjaExtension" ->
            IF TruthyS(ext.static_resource_module)
            THEN Append(routes, Rule(ext.static_url_path \o <<"/", "<path:path>">>,
                                     "_serve_static_file"))
            ELSE routes
      [] ext.cls = "ReactExtension" ->
            Append(routes, Rule(<<"/", "<path:path>">>, "_serve_static_file"))
      [] OTHER -> routes

\* WebAppBaseExtension.collect_routes, as overridden by the concrete extension
collect_routes(ext, routes) == routes \o ext.collected

\* variant: collect_routes is called before _add_superclass_routes
CollectRoutes_collect_first(ext) ==
    _add_superclass_routes(ext, collect_routes(ext, <<SelfElement>>))

\* the list update_gateway_routes hands to RuleAdapter
CollectRoutes(ext) == collect_routes(ext, _add_superclass_routes(ext, <<SelfElement>>))

\* werkzeug.routing.Submount(path, [app])
Submount(path, app) == [type |-> "Submount", anchor |-> path, app |-> app]

\* rolo.router.WithHost(host, [app])
WithHost(host, app) == [type |-> "WithHost", anchor |-> host, app |-> app]

\* variant: the subdomain rule is given an app of its own holding the extension only
MountedRules_separate_apps(ext, app) ==
    (IF TruthyS(ext.submount) THEN <<Submount(ext.submount, app)>> ELSE <<>>)
    \o (IF TruthyS(ext.subdomain)
        THEN <<WithHost(ext.subdomain \o <<".", "<__host__>">>,
                        [id |-> app.id, routes |-> <<SelfElement>>])>>
        ELSE <<>>)

\* the rules update_gateway_routes adds to the router
MountedRules(ext, app) ==
    (IF TruthyS(ext.submount) THEN <<Submount(ext.submount, app)>> ELSE <<>>)
    \o (IF TruthyS(ext.subdomain)
        THEN <<WithHost(ext.subdomain \o <<".", "<__host__>">>, app)>>
        ELSE <<>>)

\* variant: an origin already in the list is not appended again
_configure_cors_for_subdomain_dedup(ext) ==
    SelectSeq(<<external_service_url(ext.subdomain, "http"),
                external_service_url(ext.subdomain, "https")>>,
              LAMBDA url : \A i \in DOMAIN ALLOWED_CORS_ORIGINS :
                              ALLOWED_CORS_ORIGINS[i] # url)

\* WebAppBaseExtension._configure_cors_for_subdomain: the entries it appends
_configure_cors_for_subdomain(ext) ==
    <<get_subdomain_url(ext, "http").value, get_subdomain_url(ext, "https").value>>

\* WebAppBaseExtension.update_gateway_routes
update_gateway_routes ==
    LET app == [id |-> n_updates + 1, routes |-> CollectRoutes(self)]
    IN  /\ n_updates < MaxUpdates
        /\ n_updates' = n_updates + 1
        /\ wop' = "update_gateway_routes"
        /\ request' = [protocol |-> "none"]
        /\ reply' = Return(NoneS)
        /\ preprocess_request' =
              IF TruthyS(self.submount)
              THEN Append(preprocess_request, "_preprocess_request")
              ELSE preprocess_request
        /\ router' = router \o MountedRules(self, app)
        /\ ALLOWED_CORS_ORIGINS' =
              IF TruthyS(self.subdomain)
              THEN ALLOWED_CORS_ORIGINS \o _configure_cors_for_subdomain(self)
              ELSE ALLOWED_CORS_ORIGINS
        /\ UNCHANGED <<self, load_failed>>
        /\ UNCHANGED pvars

----------------------------------------------------------------------------
(* The files of the installed extension package *)

\* <site>/my_extension/frontend, the __path__[0] of the `frontend` module
FrontendDir == <<"/", "site", "/", "my_extension", "/", "frontend">>

\* directories and files on disk, as lists of path segments from the root
BuildNode == <<"site", "my_extension", "frontend", "build">>

Dirs ==
    { <<>>, <<"site">>, <<"site", "my_extension">>,
      <<"site", "my_extension", "frontend">>,
      BuildNode,
      BuildNode \o <<"static">> }

Files ==
    { <<"site", "my_extension", "frontend", "__init__.py">>,
      BuildNode \o <<"index.html">>,
      BuildNode \o <<"static", "app.js">> }

Missing == <<"<missing>">>

\* os.path.join(a, b)
os_path_join(a, b) ==
    IF b # <<>> /\ b[1] = "/" THEN b
    ELSE IF a = <<>> \/ a[Len(a)] = "/" THEN a \o b
    ELSE a \o <<"/">> \o b

RECURSIVE Walk(_, _)
\* path resolution of the operating system: the node a path string names,
\* starting from node `cur`, or Missing
Walk(cur, path) ==
    IF cur = Missing THEN Missing
    ELSE IF path = <<>> THEN cur
    ELSE LET piece == path[1]
             rest == Tail(path)
         IN  IF cur \notin Dirs THEN Missing
             ELSE IF piece = "/" \/ piece = "." THEN Walk(cur, rest)
             ELSE IF piece = ".."
                  THEN Walk(IF cur = <<>> THEN cur ELSE SubSeq(cur, 1, Len(cur) - 1), rest)
             ELSE IF cur \o <<piece>> \in Dirs \cup Files
                  THEN Walk(cur \o <<piece>>, rest)
             ELSE Missing

\* os.path.exists(path)
os_path_exists(path) == Walk(<<>>, path) # Missing

\* mimetypes.guess_type(path)[0]: decided by the extension of the last name
guess_type(path) ==
    IF path = <<>> THEN NoneS
    ELSE CASE path[Len(path)] \in {"index.html", ".html"} -> <<"text/html">>
           [] path[Len(path)] = "app.js" -> <<"text/javascript">>
           [] path[Len(path)] = "__init__.py" -> <<"text/x-python">>
           [] OTHER -> NoneS

APPLICATION_OCTET_STREAM == <<"application/octet-stream">>

----------------------------------------------------------------------------
(* HTTP requests and responses *)

Response(status, endpoint, location, body, mimetype) ==
    [kind |-> "response", status |-> status, endpoint |-> endpoint,
     location |-> location, body |-> body, mimetype |-> mimetype]

Raised(error, endpoint) == [kind |-> "raise", error |-> error, endpoint |-> endpoint]

\* request.url: scheme, host, path and query string
RequestUrl(req) == <<req.scheme, "://">> \o req.host \o req.path \o req.query

\* ReactExtension._serve_static_file(request, path)
React_serve_static_file(req, path_arg) ==
    LET path == IF ~TruthyS(path_arg) THEN req.path ELSE path_arg
        build_dir == os_path_join(FrontendDir, <<"build">>)
        requested == os_path_join(build_dir, lstrip(path, "/"))
        file_path == IF ~os_path_exists(requested)
                     THEN os_path_join(build_dir, <<"index.html">>)
                     ELSE requested
        guessed == guess_type(file_path)
        mime_type == IF TruthyS(guessed) THEN guessed ELSE APPLICATION_OCTET_STREAM
        node == Walk(<<>>, file_path)
    IN  IF node \in Files
        THEN Response(200, "_serve_static_file", NoneS, node, mime_type)
        ELSE IF node \in Dirs
        THEN Raised("IsADirectoryError", "_serve_static_file")
        ELSE Raised("FileNotFoundError", "_serve_static_file")

\* the resources of the static package of a JinjaExtension
StaticResources == {<<"app.js">>}

\* JinjaExtension._serve_static_file(request, path)
Jinja_serve_static_file(req, path_arg) ==
    IF path_arg \in StaticResources
    THEN Response(200, "_serve_static_file", NoneS, <<"static">> \o path_arg,
                  guess_type(path_arg))
    ELSE Response(404, "_serve_static_file", NoneS, NoneS, NoneS)

----------------------------------------------------------------------------
(* The gateway: preprocessors, then the router *)

\* variant: the submount is compared as configured, without rstrip("/")
_preprocess_request_no_rstrip(ext, req) ==
    IF req.path = ext.submount
    THEN Response(301, "_preprocess_request", RequestUrl(req) \o <<"/">>, NoneS, NoneS)
    ELSE NoResponse

\* WebAppBaseExtension._preprocess_request
_preprocess_request(ext, req) ==
    IF req.path = rstrip(ext.submount, "/")
    THEN Response(301, "_preprocess_request", RequestUrl(req) \o <<"/">>, NoneS, NoneS)
    ELSE NoResponse

RECURSIVE RunHandlers(_, _, _)
\* the handler chain: handlers run in order until one responds
RunHandlers(handlers, ext, req) ==
    IF handlers = <<>> THEN NoResponse
    ELSE LET r == _preprocess_request(ext, req)
         IN  IF r # NoResponse THEN r ELSE RunHandlers(Tail(handlers), ext, req)

NoMatch == [endpoint |-> "<none>", path |-> NoneS, static |-> FALSE]

\* matching one rule's path pattern against a path: a pattern ending in
\* <path:path> takes the non-empty rest of the path, another pattern is literal
MatchPath(pattern, endpoint, path) ==
    IF pattern # <<>> /\ pattern[Len(pattern)] = "<path:path>"
    THEN LET prefix == SubSeq(pattern, 1, Len(pattern) - 1)
             rest == SubSeq(path, Len(prefix) + 1, Len(path))
         IN  IF startswith(path, prefix) /\ rest # <<>> /\ rest[1] # "/"
             THEN [endpoint |-> endpoint, path |-> rest, static |-> FALSE]
             ELSE NoMatch
    ELSE IF pattern = path
         THEN [endpoint |-> endpoint, path |-> NoneS, static |-> TRUE]
         ELSE NoMatch

RECURSIVE AppRules(_, _)
\* RuleAdapter(routes): the rules of the elements, the extension object
\* contributing its @route methods
AppRules(ext, routes) ==
    IF routes = <<>> THEN <<>>
    ELSE (IF routes[1].kind = "self" THEN ext.declared ELSE <<routes[1]>>)
         \o AppRules(ext, Tail(routes))

RECURSIVE FirstMatch(_, _, _, _)
\* the first rule of `rules`, anchored at `prefix`, that matches; literal
\* rules take precedence over <path:path> rules when `literal` is set
FirstMatch(rules, prefix, path, literal) ==
    IF rules = <<>> THEN NoMatch
    ELSE LET m == MatchPath(prefix \o rules[1].path, rules[1].endpoint, path)
         IN  IF m # NoMatch /\ (literal => m.static) THEN m
             ELSE FirstMatch(Tail(rules), prefix, path, literal)

\* does the request's host match `<subdomain>.<__host__>`
HostMatches(anchor, host) ==
    LET label == SubSeq(anchor, 1, Len(anchor) - 1)
    IN  startswith(host, label) /\ Len(host) > Len(label)

\* what one mounted rule resolves a request to
ResolveIn(ext, rule, req) ==
    LET rules == AppRules(ext, rule.app.routes)
        prefix == IF rule.type = "Submount" THEN rstrip(rule.anchor, "/") ELSE <<>>
        lit == FirstMatch(rules, prefix, req.path, TRUE)
    IN  IF rule.type = "WithHost" /\ ~HostMatches(rule.anchor, req.host) THEN NoMatch
        ELSE IF lit # NoMatch THEN lit
        ELSE FirstMatch(rules, prefix, req.path, FALSE)

RECURSIVE Dispatch(_, _, _, _)
\* the router: the first mounted rule that resolves the request
Dispatch(ext, rules, req, literal) ==
    IF rules = <<>> THEN NoMatch
    ELSE LET m == ResolveIn(ext, rules[1], req)
         IN  IF m # NoMatch /\ (literal => m.static) THEN m
             ELSE Dispatch(ext, Tail(rules), req, literal)

\* calling the endpoint a request resolved to
CallEndpoint(ext, m, req) ==
    IF m.endpoint = "_serve_static_file"
    THEN IF ext.cls = "ReactExtension"
         THEN React_serve_static_file(req, m.path)
         ELSE Jinja_serve_static_file(req, m.path)
    ELSE Response(200, m.endpoint, NoneS, NoneS, NoneS)

\* one request through the gateway
HandleRequestReply(ext, handlers, rules, req) ==
    LET pre == RunHandlers(handlers, ext, req)
        lit == Dispatch(ext, rules, req, TRUE)
        m == IF lit # NoMatch THEN lit ELSE Dispatch(ext, rules, req, FALSE)
    IN  IF pre # NoResponse THEN pre
        ELSE IF m = NoMatch THEN Response(404, "<none>", NoneS, NoneS, NoneS)
        ELSE CallEndpoint(ext, m, req)

\* paths relative to a mount point that clients ask for
RelPaths(ext) ==
    { <<"/">>, <<"/", "hello">>, <<"/", "say-hello">>, <<"/", "nope">> }
    \cup (IF ext.cls = "WebAppBaseExtension" THEN {}
          ELSE { <<"/", "static">>, <<"/", "static", "/", "app.js">> })
    \cup (IF ext.cls = "ReactExtension"
          THEN { <<"/", "index.html">>, <<"/", "..", "/", "__init__.py">> }
          ELSE {})

\* the paths of the requests sent: relative paths as they are, and under the submount
RequestPaths(ext) ==
    RelPaths(ext) \cup
    (IF TruthyS(ext.submount)
     THEN {rstrip(ext.submount, "/") \o p : p \in RelPaths(ext) \cup {<<>>}}
     ELSE {})

\* the hosts of the requests sent: the base host, and the subdomain's host
RequestHosts(ext) ==
    {LOCALSTACK_HOST} \cup
    (IF TruthyS(ext.subdomain) THEN {ext.subdomain \o <<".">> \o LOCALSTACK_HOST} ELSE {})

\* scheme and query string of the requests sent
RequestForms(ext) ==
    {[scheme |-> "http", query |-> <<>>]}
    \cup (IF ext.cls = "WebAppBaseExtension"
          THEN {[scheme |-> "https", query |-> <<"?", "q=1">>]}
          ELSE {})

HandleRequest ==
    \E host \in RequestHosts(self), path \in RequestPaths(self),
       form \in RequestForms(self) :
        LET req == [scheme |-> form.scheme, host |-> host, path |-> path,
                    query |-> form.query]
            r == HandleRequestReply(self, preprocess_request, router, req)
        IN  /\ path # <<>>
            /\ wop' = "request"
            /\ request' = req
            /\ reply' = r
            /\ self' = IF r.endpoint = "_serve_static_file" /\ self.cls = "ReactExtension"
                       THEN [self EXCEPT !.static_resource_module =
                                            <<"my_extension", ".", "frontend">>]
                       ELSE self
            /\ UNCHANGED <<preprocess_request, router, ALLOWED_CORS_ORIGINS, n_updates>>
            /\ UNCHANGED load_failed
            /\ UNCHANGED pvars

----------------------------------------------------------------------------
(* Rendering templates (JinjaExtension) *)

\* <site>/my_extension/templates, where the PackageLoader finds the templates
TemplatesDir == <<"/", "site", "/", "my_extension", "/", "templates">>

\* the templates of the package; a name's extension is a piece of its own
Templates == { <<"x", ".html">>, <<"x", ".html", ".j2">>, <<"README">> }

\* the template names callers ask for
TemplateNames == Templates \cup { <<"missing", ".html">> }

\* JinjaExtension._create_template_env: a new jinja2.Environment
_create_template_env(ext) == <<"jinja2.Environment", ToString(ext.envs_created + 1)>>

\* variant: a plain property, the environment is built on every access
template_env_uncached(ext) ==
    IF TruthyS(ext.template_package_path)
    THEN [ext |-> [ext EXCEPT !.envs_created = @ + 1], env |-> _create_template_env(ext)]
    ELSE [ext |-> ext, env |-> NoneS]

\* JinjaExtension.template_env (a cached_property): the instance afterwards and the value
template_env(ext) ==
    IF ext.template_env # Unset
    THEN [ext |-> ext, env |-> ext.template_env]
    ELSE IF TruthyS(ext.template_package_path)
    THEN [ext |-> [ext EXCEPT !.template_env = _create_template_env(ext),
                              !.envs_created = @ + 1],
          env |-> _create_template_env(ext)]
    ELSE [ext |-> [ext EXCEPT !.template_env = NoneS], env |-> NoneS]

\* template.filename of a template the loader found
TemplateFilename(template_name) == os_path_join(TemplatesDir, template_name)

\* variant: no fallback when no type can be guessed
TemplateMimetype_no_fallback(filename) == guess_type(filename)

\* the mimetype render_template_response gives its response
TemplateMimetype(filename) ==
    IF TruthyS(guess_type(filename)) THEN guess_type(filename) ELSE <<"text/plain">>

\* what a render call raised, and with which environment
RenderRaised(error, endpoint, env) ==
    [kind |-> "raise", error |-> error, endpoint |-> endpoint, env |-> env]

\* JinjaExtension.render_template
render_template(ext, template_name) ==
    LET te == template_env(ext)
    IN  [ext |-> te.ext,
         reply |->
            IF te.env = NoneS
            THEN RenderRaised("AttributeError", "render_template", te.env)
            ELSE IF template_name \notin Templates
            THEN RenderRaised("TemplateNotFound", "render_template", te.env)
            ELSE [kind |-> "return", value |-> <<"rendered">> \o template_name,
                  env |-> te.env]]

\* JinjaExtension.render_template_response
render_template_response(ext, template_name) ==
    LET te == template_env(ext)
    IN  [ext |-> te.ext,
         reply |->
            IF te.env = NoneS
            THEN RenderRaised("AttributeError", "render_template_response", te.env)
            ELSE IF template_name \notin Templates
            THEN RenderRaised("TemplateNotFound", "render_template_response", te.env)
            ELSE [kind |-> "response", status |-> 200,
                  endpoint |-> "render_template_response", location |-> NoneS,
                  body |-> <<"rendered">> \o template_name,
                  mimetype |-> TemplateMimetype(TemplateFilename(template_name)),
                  env |-> te.env]]

RenderTemplate ==
    \E template_name \in TemplateNames :
        LET r == render_template(self, template_name)
        IN  /\ wop' = "render_template"
            /\ request' = [template_name |-> template_name]
            /\ self' = r.ext
            /\ reply' = r.reply
            /\ UNCHANGED <<preprocess_request, router, ALLOWED_CORS_ORIGINS, n_updates,
                           load_failed>>
            /\ UNCHANGED pvars

RenderTemplateResponse ==
    \E template_name \in TemplateNames :
        LET r == render_template_response(self, template_name)
        IN  /\ wop' = "render_template_response"
            /\ request' = [template_name |-> template_name]
            /\ self' = r.ext
            /\ reply' = r.reply
            /\ UNCHANGED <<preprocess_request, router, ALLOWED_CORS_ORIGINS, n_updates,
                           load_failed>>
            /\ UNCHANGED pvars

----------------------------------------------------------------------------
(* Loading the extension *)

\* what importlib.import_module can end with
ImportOutcomes == {"ok", "ModuleNotFoundError", "ImportError"}

\* variant: no except clause, a failed import propagates
LoadSwallows_nothing(error) == FALSE

\* the except clause of on_extension_load: which import errors are downgraded to a warning
LoadSwallows(error) == error = "ModuleNotFoundError"

\* JinjaExtension.on_extension_load (the other classes inherit the empty Extension.on_extension_load)
on_extension_load(ext, imported) ==
    IF ext.cls = "JinjaExtension"
       /\ TruthyS(ext.static_package_path) /\ ~TruthyS(ext.static_resource_module)
    THEN IF imported = "ok"
         THEN [ext |-> [ext EXCEPT !.static_resource_module =
                                     <<"my_extension", ".">> \o ext.static_package_path],
               reply |-> Return(NoneS)]
         ELSE IF LoadSwallows(imported)
         THEN [ext |-> ext, reply |-> Return(NoneS)]
         ELSE [ext |-> ext, reply |-> Raised(imported, "on_extension_load")]
    ELSE [ext |-> ext, reply |-> Return(NoneS)]

\* whether this call of on_extension_load attempts the import
LoadImports(ext) ==
    /\ ext.cls = "JinjaExtension"
    /\ TruthyS(ext.static_package_path)
    /\ ~TruthyS(ext.static_resource_module)

OnExtensionLoad ==
    \E imported \in ImportOutcomes :
        LET r == on_extension_load(self, imported)
        IN  /\ ~LoadImports(self) => imported = "ok"
            /\ wop' = "on_extension_load"
            /\ request' = [imported |-> IF LoadImports(self) THEN imported ELSE "none"]
            /\ self' = r.ext
            /\ reply' = r.reply
            /\ load_failed' = (load_failed \/ (LoadImports(self) /\ imported # "ok"
                                                 /\ r.reply.kind = "return"))
            /\ UNCHANGED <<preprocess_request, router, ALLOWED_CORS_ORIGINS, n_updates>>
            /\ UNCHANGED pvars

----------------------------------------------------------------------------
(* Specifications *)

\* the allow list as the process starts: the origins localstack allows by default
DefaultCorsOrigins == <<<<"https", "://", "app.localstack.cloud">>>>

\* the states after construction of an instance of class `cls`
InitWeb(cls, mounts, submounts, subdomains, template_package_paths, static_package_paths) ==
    /\ \E mount \in mounts, submount \in submounts, subdomain \in subdomains,
          template_package_path \in template_package_paths,
          static_package_path \in static_package_paths,
          declared \in DeclaredRoutes(cls), collected \in CollectedRoutes :
          /\ (declared = <<>>) = (collected = <<>>) \/ cls = "ReactExtension"
          /\ self = NewExtension(cls, mount, submount, subdomain, template_package_path,
                                 static_package_path, declared, collected)
    /\ preprocess_request = <<>>
    /\ router = <<>>
    /\ ALLOWED_CORS_ORIGINS = DefaultCorsOrigins
    /\ n_updates = 0
    /\ wop = "none"
    /\ request = [protocol |-> "none"]
    /\ reply = NoResponse
    /\ load_failed = FALSE

InitProvider ==
    /\ deployments = {}
    /\ request_state = Absent
    /\ desired_state = Absent
    /\ api_calls = <<>>
    /\ result = NoResult
    /\ op = "none"

Init ==
    /\ InitWeb("WebAppBaseExtension", MountArgs, SubmountArgs, SubdomainArgs, {_default},
               {_default})
    /\ InitProvider

Next ==
    \/ update_gateway_routes
    \/ GetSubdomainUrl
    \/ GetSubmountUrl
    \/ HandleRequest

\* a WebAppBaseExtension, the gateway it is mounted into and its callers
Spec == Init /\ [][Next]_vars

InitReact ==
    /\ InitWeb("ReactExtension", {NoneS}, {_default, NoneS}, {_default, NoneS}, {_default},
               {_default})
    /\ InitProvider

NextReact ==
    \/ update_gateway_routes
    \/ HandleRequest

\* a ReactExtension and the gateway it is mounted into
SpecReact == InitReact /\ [][NextReact]_vars

InitJinja ==
    /\ InitWeb("JinjaExtension", {NoneS}, {_default, NoneS}, {_default, NoneS},
               TemplatePackagePathArgs, StaticPackagePathArgs)
    /\ InitProvider

NextJinja ==
    \/ OnExtensionLoad
    \/ RenderTemplate
    \/ RenderTemplateResponse
    \/ update_gateway_routes
    \/ HandleRequest

\* a JinjaExtension, its loading and the gateway it is mounted into
SpecJinja == InitJinja /\ [][NextJinja]_vars

\* an extension instance that is never touched, beside the provider
IdleWeb ==
    /\ self = NewExtension("WebAppBaseExtension", NoneS, _default, _default, _default,
                           _default, <<>>, <<>>)
    /\ preprocess_request = <<>>
    /\ router = <<>>
    /\ ALLOWED_CORS_ORIGINS = DefaultCorsOrigins
    /\ n_updates = 0
    /\ wop = "none"
    /\ request = [protocol |-> "none"]
    /\ reply = NoResponse
    /\ load_failed = FALSE

NextProvider ==
    \/ Create
    \/ Read
    \/ Delete
    \/ Update

InitProviderOnly == InitProvider /\ IdleWeb

\* the resource provider and the remote API it calls
SpecProvider == InitProviderOnly /\ [][NextProvider]_vars

----------------------------------------------------------------------------
(* Properties of the resource provider (checked under SpecProvider) *)

\* C4: when delete's remote delete_deployment call reports not-found, delete
\* returns SUCCESS and the resource model is the supplied model, unchanged.
DeleteNotFoundIsSuccess ==
    (op = "delete" /\ Len(api_calls) = 1 /\ api_calls[1].error = "NotFoundException")
        => /\ result = ProgressEvent(SUCCESS, request_state)
           /\ desired_state = request_state

DeleteNotFoundSeen ==
    /\ op = "delete"
    /\ Len(api_calls) = 1
    /\ api_calls[1].error = "NotFoundException"
    /\ result.kind = "return"

\* C5: create calls create_deployment exactly once with restApiId = RestApiId of
\* the desired state; when that call returns, create returns SUCCESS with a
\* model that keeps RestApiId and whose DeploymentId is the returned id.
CreateWritesReturnedId ==
    op = "create" =>
        /\ Len(api_calls) = 1
        /\ api_calls[1].api = "create_deployment"
        /\ api_calls[1].params["restApiId"] = request_state["RestApiId"]
        /\ api_calls[1].error = "none" =>
              /\ result.kind = "return"
              /\ result.status = SUCCESS
              /\ result.resource_model["RestApiId"] = request_state["RestApiId"]
              /\ result.resource_model["DeploymentId"] = api_calls[1].response["id"]

\* a create on a model that already carried another DeploymentId
CreateReturnedSeen ==
    /\ op = "create"
    /\ Len(api_calls) = 1
    /\ api_calls[1].error = "none"
    /\ request_state["DeploymentId"] # api_calls[1].response["id"]
    /\ result.kind = "return"

\* C6: read and update always raise NotImplementedError: no outcome is
\* returned, no remote call is made, the supplied model is not modified.
ReadUpdateNotImplemented ==
    op \in {"read", "update"} =>
        /\ result = Raise("NotImplementedError")
        /\ api_calls = <<>>
        /\ desired_state = request_state

ReadUpdateSeen ==
    /\ op \in {"read", "update"}
    /\ result.kind = "raise"
    /\ deployments # {}

\* C7: when delete's remote call fails with an error other than not-found, the
\* same error reaches the caller, no outcome is returned, and exactly one
\* remote call was made.
DeleteOtherErrorPropagates ==
    (op = "delete" /\ Len(api_calls) >= 1
        /\ api_calls[1].error \notin {"none", "NotFoundException"})
        => /\ result = Raise(api_calls[1].error)
           /\ Len(api_calls) = 1

DeleteOtherErrorSeen ==
    /\ op = "delete"
    /\ Len(api_calls) = 1
    /\ api_calls[1].error = "TooManyRequestsException"
    /\ result.kind = "raise"

----------------------------------------------------------------------------
(* Properties of the web extensions *)

\* the sequence `part` occurs in `whole`
Occurs(part, whole) ==
    \E i \in 1..(Len(whole) - Len(part) + 1) :
        SubSeq(whole, i, i + Len(part) - 1) = part

\* the request's path is the submount without a trailing slash
IsBareSubmount(ext, path) ==
    /\ TruthyS(ext.submount)
    /\ path # <<>>
    /\ path[Len(path)] # "/"
    /\ ext.submount \in {path, path \o <<"/">>}

\* the request sent to the submount for relative path p, and to the subdomain
SubmountRequest(ext, p) ==
    [scheme |-> "http", host |-> LOCALSTACK_HOST, query |-> <<>>,
     path |-> (IF ext.submount[Len(ext.submount)] = "/"
               THEN SubSeq(ext.submount, 1, Len(ext.submount) - 1)
               ELSE ext.submount) \o p]

SubdomainRequest(ext, p) ==
    [scheme |-> "http", host |-> ext.subdomain \o <<".">> \o LOCALSTACK_HOST,
     query |-> <<>>, path |-> p]

\* the path of a request relative to the mount point it was sent to
RelPathOf(ext, req) ==
    LET bare == IF TruthyS(ext.submount) THEN rstrip(ext.submount, "/") ELSE <<>>
    IN  IF req.host = LOCALSTACK_HOST /\ startswith(req.path, bare)
        THEN SubSeq(req.path, Len(bare) + 1, Len(req.path))
        ELSE req.path

\* some mounted rule carries a static-file route
StaticRouteRegistered ==
    \E i \in DOMAIN router : \E k \in DOMAIN router[i].app.routes :
        router[i].app.routes[k].endpoint = "_serve_static_file"

\* C1: every request that reaches ReactExtension._serve_static_file is
\* answered with the contents of a file, never with an error; when the
\* requested path names no file, the contents are those of build/index.html.
SpaAlwaysServesAFile ==
    (wop = "request" /\ self.cls = "ReactExtension"
        /\ reply.endpoint = "_serve_static_file")
        => /\ reply.kind = "response"
           /\ reply.status = 200
           /\ reply.body \in Files
           /\ LET named == Walk(BuildNode, lstrip(RelPathOf(self, request), "/"))
              IN  named \notin Files => reply.body = BuildNode \o <<"index.html">>

MountedUnderBothChannels ==
    (n_updates >= 1 /\ TruthyS(self.submount) /\ TruthyS(self.subdomain))
        => \A n \in 1..n_updates :
             \E i \in DOMAIN router, j \in DOMAIN router :
                /\ router[i].type = "Submount"
                /\ router[i].anchor = self.submount
                /\ router[j].type = "WithHost"
                /\ router[j].anchor = self.subdomain \o <<".", "<__host__>">>
                /\ router[i].app.id = n
                /\ router[j].app.id = n
                /\ router[i].app.routes[1] = SelfElement
                /\ \A k \in DOMAIN self.collected :
                      /\ \E a \in DOMAIN router[i].app.routes :
                            router[i].app.routes[a] = self.collected[k]
                      /\ \E b \in DOMAIN router[j].app.routes :
                            router[j].app.routes[b] = self.collected[k]
                /\ \A p \in RelPaths(self) :
                      ResolveIn(self, router[i], SubmountRequest(self, p))
                        = ResolveIn(self, router[j], SubdomainRequest(self, p))

\* a collected route answered through the subdomain
CollectedRouteSeenAtSubdomain ==
    /\ n_updates >= 1
    /\ TruthyS(self.submount)
    /\ TruthyS(self.subdomain)
    /\ wop = "request"
    /\ request.host # LOCALSTACK_HOST
    /\ reply.kind = "response"
    /\ reply.endpoint = "say_hello"

\* C8: each update_gateway_routes call on an extension with a subdomain appends
\* the subdomain's http URL then its https URL to the allow list, also when they
\* are already there; a call without a subdomain, and every other operation,
\* leaves the list as it is.
CorsListAppendOnly ==
    [][ IF n_updates' = n_updates + 1 /\ TruthyS(self.subdomain)
        THEN ALLOWED_CORS_ORIGINS' =
                ALLOWED_CORS_ORIGINS
                    \o << <<"http", "://">> \o self.subdomain \o <<".">> \o LOCALSTACK_HOST,
                           <<"https", "://">> \o self.subdomain \o <<".">> \o LOCALSTACK_HOST >>
        ELSE ALLOWED_CORS_ORIGINS' = ALLOWED_CORS_ORIGINS ]_vars

\* two calls have appended the same two origins twice
CorsAppendedTwice ==
    /\ n_updates = 2
    /\ TruthyS(self.subdomain)
    /\ Len(ALLOWED_CORS_ORIGINS) = Len(DefaultCorsOrigins) + 4
    /\ ALLOWED_CORS_ORIGINS[Len(ALLOWED_CORS_ORIGINS)]
          = ALLOWED_CORS_ORIGINS[Len(ALLOWED_CORS_ORIGINS) - 2]

UrlAccessorsCheckTheChannel ==
    /\ wop = "get_subdomain_url" =>
          IF self.subdomain \in {NoneS, <<>>}
          THEN /\ reply.kind = "raise"
               /\ reply.error = "ValueError"
               /\ Occurs(self.name, reply.message)
          ELSE /\ reply.kind = "return"
               /\ startswith(reply.value, <<request.protocol, "://">>)
               /\ Occurs(self.subdomain, reply.value)
    /\ wop = "get_submount_url" =>
          IF self.submount \in {NoneS, <<>>}
          THEN /\ reply.kind = "raise"
               /\ reply.error = "ValueError"
               /\ Occurs(self.name, reply.message)
          ELSE /\ reply.kind = "return"
               /\ startswith(reply.value, <<request.protocol, "://">>)
               /\ Occurs(self.submount, reply.value)

\* the subdomain accessor raising on an extension built with subdomain=None
SubdomainAccessorRaised ==
    /\ wop = "get_subdomain_url"
    /\ self.subdomain = NoneS
    /\ reply.kind = "raise"

RenderedContentType ==
    (wop = "render_template_response" /\ reply.kind = "response")
        => LET name == request.template_name
               extension == name[Len(name)]
           IN  /\ (extension = ".html" => reply.mimetype = <<"text/html">>)
               /\ (extension # ".html" => reply.mimetype = <<"text/plain">>)
               /\ (name = <<"x", ".html">> => reply.mimetype = <<"text/html">>)

\* a template whose extension is not known was rendered as text/plain
PlainTextFallbackSeen ==
    /\ wop = "render_template_response"
    /\ reply.kind = "response"
    /\ request.template_name = <<"x", ".html", ".j2">>
    /\ reply.mimetype = <<"text/plain">>

\* C14: with a template package path set, the template environment is built
\* at most once, by the first render_template or render_template_response
\* call and not before, and every such call uses that one environment.
TemplateEnvBuiltOnce ==
    /\ self.envs_created = 0
    /\ [][ (self'.envs_created # self.envs_created
              => (/\ wop' \in {"render_template", "render_template_response"}
                  /\ self.envs_created = 0
                  /\ self'.envs_created = 1))
           /\
           ((wop' \in {"render_template", "render_template_response"}
                /\ TruthyS(self'.template_package_path))
              => (/\ self'.envs_created = 1
                  /\ reply'.env = <<"jinja2.Environment", "1">>)) ]_vars

\* a render call that found the environment already built by an earlier call
SecondRenderSeen ==
    /\ wop = "render_template_response"
    /\ request.template_name = <<"README">>
    /\ reply.kind = "response"
    /\ self.envs_created = 1
    /\ reply.env = <<"jinja2.Environment", "1">>
    /\ load_failed

\* C13: every mounted list starts with the extension itself, continues with
\* the routes of _add_superclass_routes (for the SPA adapter its catch-all
\* route) and ends with the routes of collect_routes; it is complete when it is
\* mounted, and one call mounts the same list under both channels.
RouteListOrder ==
    /\ \A i \in DOMAIN router :
          router[i].app.routes =
              <<SelfElement, Rule(<<"/", "<path:path>">>, "_serve_static_file")>>
                  \o self.collected
    /\ \A i \in DOMAIN router, j \in DOMAIN router :
          router[i].app.id = router[j].app.id => router[i].app = router[j].app

\* one call mounted a list with a collect_routes route under both channels
ThreePartListMountedTwice ==
    /\ n_updates = 1
    /\ Len(router) = 2
    /\ router[1].type = "Submount"
    /\ router[2].type = "WithHost"
    /\ self.collected # <<>>
    /\ Len(router[2].app.routes) = 3

\* C15: the file whose contents ReactExtension._serve_static_file serves lies
\* inside frontend/build, whatever the request path, `..` segments included.
ServedFileInsideBuild ==
    (wop = "request" /\ self.cls = "ReactExtension"
        /\ reply.endpoint = "_serve_static_file" /\ reply.kind = "response")
        => (Len(reply.body) > Len(BuildNode)
            /\ SubSeq(reply.body, 1, Len(BuildNode)) = BuildNode)

====
